---- MODULE Spec2Model ----
(***************************************************************************)
(* LangChain_Chatbot: the conversation store (src/src/database.py), the    *)
(* Streamlit chat page that drives it (src/app.py), the retrieval chain's  *)
(* formatting of documents and history (src/src/rag_chain.py,              *)
(* src/rebuild_vectorstore.py), and the loading and splitting of the       *)
(* documentation (src/src/doc_loader.py).                                  *)
(*                                                                         *)
(* Text is a sequence of one-character strings, so that len(), slicing,    *)
(* concatenation, in, strip, split and join are sequence operations.  A    *)
(* browser session is one st.session_state; every session runs its script  *)
(* on its own thread against the one shared PostgreSQL store.  Each        *)
(* database function is one transaction; SpecWriters takes add_message in  *)
(* the two steps its transaction has.  Left out, as nothing here reads     *)
(* them: registration, Conversation.created_at, the limit of 20 on the     *)
(* sidebar list, st.session_state.temp_response, the embedding model and   *)
(* the language model.                                                     *)
(***************************************************************************)
EXTENDS Integers, Sequences, FiniteSets, TLC

\* ------------------------------------------------------------------ bounds
MaxRows == 4        \* rows ever inserted into the store, of both tables
MaxChunks == 1      \* fragments the chain yields in one turn
MaxContent == 52    \* characters of a message add_message is called with
MaxRun == 9         \* copies of one chunk at the head of the collection
MaxMixed == 2       \* chunks of any kind after them
MaxTurns == 5       \* turns of a history given to the chain
MaxUrls == 3        \* URLs in a list given to load_documents_from_urls

\* ----------------------------------------------------------- program text
TitleMax == 50
NEW_CHAT == <<"N", "e", "w", " ", "C", "h", "a", "t">>
Ellipsis == <<".", ".", ".">>
ErrorPrefix == <<"E", "r", "r", "o", "r", ":", " ">>

\* ------------------------------------------------------------------ inputs
Users == {1, 2}
Sessions == {1, 2}
None == 0
\* Entries of one session's st.session_state.messages.
MaxShown == MaxRows - 1
Hi == <<"H", "i">>
Prompts == {NEW_CHAT, Hi}
Chunks == {<<"o", "k">>}
Exceptions == {<<"4", "2", "9">>}

VARIABLES
    convs,                    \* table conversations: id -> row
    msgs,                     \* table chat_messages, in insertion (id) order
    nextConvId,               \* the autoincrement of conversations.id
    nextMsgId,                \* the autoincrement of chat_messages.id
    clock,                    \* the last reading of datetime.utcnow()
    logged_in,                \* st.session_state.logged_in, per session
    user_id,                  \* st.session_state.user_id
    current_conversation_id,  \* st.session_state.current_conversation_id
    messages,                 \* st.session_state.messages
    pc,                       \* where the session's script run stands
    prompt,                   \* the question of the turn in progress
    full_response,            \* stream_response's accumulator
    response,                 \* what st.write_stream has received
    raised,                   \* stream_response took its except branch
    exc,                      \* the call that ended the last run by raising
    pending,                  \* add_message's open transaction, per session
    first_message,            \* the content add_message is called with
    conv_title,               \* the title add_message derives from it
    vectorstore,              \* the collection, by similarity to the question
    retrieved,                \* docs: what retriever.invoke returned
    labelled,                 \* format_docs' list formatted
    used,                     \* the values of i at format_docs' appends
    context,                  \* format_docs' return value
    turns,                    \* the (human, ai) pairs a caller holds
    chat_history,             \* the history block the prompt is given
    web,                      \* what loader.load() gives for each URL listed
    all_docs,                 \* load_documents_from_urls' return value
    all_chunks,               \* split_documents' return value
    ran                       \* the entry point that has run, outside a session

store == <<convs, msgs, nextConvId, nextMsgId>>
session == <<logged_in, user_id, current_conversation_id, messages>>
turn == <<prompt, full_response, response, raised>>
loader == <<web, all_docs, all_chunks>>
calls == <<first_message, conv_title, vectorstore, retrieved, labelled, used,
           context, turns, chat_history, loader, ran>>
vars == <<convs, msgs, nextConvId, nextMsgId, clock, logged_in, user_id,
          current_conversation_id, messages, pc, prompt, full_response,
          response, raised, exc, pending, first_message, conv_title,
          vectorstore, retrieved, labelled, used, context, turns,
          chat_history, web, all_docs, all_chunks, ran>>

\* ----------------------------------------------------------------- helpers
\* The reading datetime.utcnow() gives after the reading t: the calls are
\* a database round trip apart, and the clock is taken not to be set back.
utcnow(t) == {t + 1}

\* ---------------------------------------------------------------- database
\* Rows inserted so far: both ids count up from 1 and are never reused.
RowsInserted == (nextConvId - 1) + (nextMsgId - 1)

\* Conversation(user_id=.., title=..): session.add; session.commit.
create_conversation(uid, title, t) ==
    [convs |-> convs @@ (nextConvId :> [user_id |-> uid, title |-> title,
                                        updated_at |-> t]),
     msgs |-> msgs]

\* Conversation ids of a user (the rows get_user_conversations returns).
get_user_conversations(uid) == {c \in DOMAIN convs : convs[c].user_id = uid}

\* Messages of a conversation, oldest first.
get_conversation_messages(cid) ==
    LET Of(m) == m.conversation_id = cid IN SelectSeq(msgs, Of)

\* The title cut one character early: len(content) >= 50.
derive_title_early(content) ==
    IF Len(content) >= TitleMax
    THEN SubSeq(content, 1, TitleMax) \o Ellipsis
    ELSE content

\* content[:50] + "..." if len(content) > 50 else content
derive_title(content) ==
    IF Len(content) > TitleMax
    THEN SubSeq(content, 1, TitleMax) \o Ellipsis
    ELSE content

\* if conv and conv.title == "New Chat" and role == "user"
title_after(conv, role, content) ==
    IF conv.title = NEW_CHAT /\ role = "user"
    THEN derive_title(content)
    ELSE conv.title

\* add_message without the failure on a missing conversation.
add_message_raises_never(cid) == FALSE

\* No conversation has the id: the insert breaks the foreign key, and conv
\* is None at conv.updated_at = ...; add_message raises.
add_message_raises(cid) == cid \notin DOMAIN convs

\* add_message without conv.updated_at = datetime.utcnow().
add_message_commit_stale(cid, role, content, t1, t2) ==
    [convs |-> [c \in DOMAIN convs |->
                   IF c = cid
                   THEN [convs[c] EXCEPT
                           !.title = title_after(convs[c], role, content)]
                   ELSE convs[c]],
     msgs |-> Append(msgs, [id |-> nextMsgId, conversation_id |-> cid,
                            role |-> role, content |-> content,
                            created_at |-> t1])]

\* The store after add_message's session.commit().
add_message_commit(cid, role, content, t1, t2) ==
    [convs |-> [c \in DOMAIN convs |->
                   IF c = cid
                   THEN [convs[c] EXCEPT
                           !.title = title_after(convs[c], role, content),
                           !.updated_at = t2]
                   ELSE convs[c]],
     msgs |-> Append(msgs, [id |-> nextMsgId, conversation_id |-> cid,
                            role |-> role, content |-> content,
                            created_at |-> t1])]

\* add_message whose except branch leaves the flushed message row behind.
add_message_rollback_partial(cid, role, content, t1, t2) ==
    [convs |-> convs,
     msgs |-> Append(msgs, [id |-> nextMsgId, conversation_id |-> cid,
                            role |-> role, content |-> content,
                            created_at |-> t1])]

\* add_message whose except branch leaves the derived title behind.
add_message_rollback_title(cid, role, content, t1, t2) ==
    [convs |-> [c \in DOMAIN convs |->
                   IF c = cid
                   THEN [convs[c] EXCEPT
                           !.title = title_after(convs[c], role, content)]
                   ELSE convs[c]],
     msgs |-> msgs]

\* The store after add_message's session.rollback().
add_message_rollback(cid, role, content, t1, t2) ==
    [convs |-> convs, msgs |-> msgs]

\* delete_conversation without its delete of the messages.
delete_conversation_only(cid) ==
    [convs |-> [c \in DOMAIN convs \ {cid} |-> convs[c]],
     msgs |-> msgs]

\* The store after delete_conversation's commit.
delete_conversation(cid) ==
    LET Kept(m) == m.conversation_id # cid
    IN [convs |-> [c \in DOMAIN convs \ {cid} |-> convs[c]],
        msgs |-> SelectSeq(msgs, Kept)]

\* The store after delete_all_conversations' commit.
delete_all_conversations(uid) ==
    LET conv_ids == get_user_conversations(uid)
        Kept(m) == m.conversation_id \notin conv_ids
    IN [convs |-> [c \in DOMAIN convs \ conv_ids |-> convs[c]],
        msgs |-> SelectSeq(msgs, Kept)]

\* --------------------------------------------------------------------- app
\* load_current_chat: the role and content of each stored message.
load_current_chat(cid) ==
    IF cid # None
    THEN LET ms == get_conversation_messages(cid)
         IN [i \in 1..Len(ms) |-> [role |-> ms[i].role,
                                   content |-> ms[i].content]]
    ELSE <<>>

\* The places i of shown[:-1] with shown[i]["role"] == "user", in order.
paired(shown) ==
    LET places == [i \in 1..(Len(shown) - 1) |-> i]
        IsUser(i) == shown[i].role = "user"
    IN SelectSeq(places, IsUser)

\* history = [(m["content"], messages[i+1]["content"]) for i, m in
\*            enumerate(messages[:-1]) if m["role"] == "user" and ...]
history_of(shown) ==
    [n \in 1..Len(paired(shown)) |->
        <<shown[paired(shown)[n]].content,
          shown[paired(shown)[n] + 1].content>>]

Idle(s) == pc[s] = "idle"

\* What the page shows of the last run: nothing, or the call that raised.
NoExc == [call |-> "none", why |-> "none"]
Raised(call, reason) == [call |-> call, why |-> reason]

\* The lazy creation without its test.
needs_conversation_always(s) == TRUE

\* if not st.session_state.current_conversation_id
needs_conversation(s) == current_conversation_id[s] = None

\* The locals of a script run are gone when the run ends.
EndRun(s) ==
    /\ pc' = [pc EXCEPT ![s] = "idle"]
    /\ prompt' = [prompt EXCEPT ![s] = <<>>]
    /\ full_response' = [full_response EXCEPT ![s] = <<>>]
    /\ response' = [response EXCEPT ![s] = <<>>]
    /\ raised' = [raised EXCEPT ![s] = FALSE]

\* The store and the pages before the first request.
NoRequest ==
    /\ convs = <<>>
    /\ msgs = <<>>
    /\ nextConvId = 1
    /\ nextMsgId = 1
    /\ clock = 0
    /\ logged_in = [s \in Sessions |-> FALSE]
    /\ user_id = [s \in Sessions |-> None]
    /\ current_conversation_id = [s \in Sessions |-> None]
    /\ messages = [s \in Sessions |-> <<>>]
    /\ pc = [s \in Sessions |-> "idle"]
    /\ prompt = [s \in Sessions |-> <<>>]
    /\ full_response = [s \in Sessions |-> <<>>]
    /\ response = [s \in Sessions |-> <<>>]
    /\ raised = [s \in Sessions |-> FALSE]
    /\ exc = [s \in Sessions |-> NoExc]
    /\ pending = [s \in Sessions |-> <<>>]

\* add_message has not been called outside a session.
NoTitle == first_message = <<>> /\ conv_title = <<>>

\* No question has reached the chain's retriever.
NoContext ==
    /\ vectorstore = <<>>
    /\ retrieved = <<>>
    /\ labelled = <<>>
    /\ used = <<>>
    /\ context = <<>>

\* No history has reached the chain.
NoHistory == turns = <<>> /\ chat_history = <<>>

\* No documentation has been loaded.
NoLoad == web = <<>> /\ all_docs = <<>> /\ all_chunks = <<>>

Init ==
    NoRequest /\ NoTitle /\ NoContext /\ NoHistory /\ NoLoad /\ ran = "none"

\* The Login form without the two lines that force a new chat.
Login_keeps_chat(s, u) ==
    /\ Idle(s)
    /\ ~logged_in[s]
    /\ logged_in' = [logged_in EXCEPT ![s] = TRUE]
    /\ user_id' = [user_id EXCEPT ![s] = u]
    /\ exc' = [exc EXCEPT ![s] = NoExc]
    /\ UNCHANGED <<store, clock, pc, turn, current_conversation_id, messages>>
    /\ UNCHANGED <<pending, calls>>

\* show_login_page: the Login form, login_user succeeding for user u.
Login(s, u) ==
    /\ Idle(s)
    /\ ~logged_in[s]
    /\ logged_in' = [logged_in EXCEPT ![s] = TRUE]
    /\ user_id' = [user_id EXCEPT ![s] = u]
    /\ current_conversation_id' = [current_conversation_id EXCEPT ![s] = None]
    /\ messages' = [messages EXCEPT ![s] = <<>>]
    /\ exc' = [exc EXCEPT ![s] = NoExc]
    /\ UNCHANGED <<store, clock, pc, turn>>
    /\ UNCHANGED <<pending, calls>>

\* The Logout button.
Logout(s) ==
    /\ Idle(s)
    /\ logged_in[s]
    /\ logged_in' = [logged_in EXCEPT ![s] = FALSE]
    /\ exc' = [exc EXCEPT ![s] = NoExc]
    /\ UNCHANGED <<store, clock, user_id, current_conversation_id, messages,
                   pc, turn>>
    /\ UNCHANGED <<pending, calls>>

\* The New Chat button.
NewChat(s) ==
    /\ Idle(s)
    /\ logged_in[s]
    /\ current_conversation_id' = [current_conversation_id EXCEPT ![s] = None]
    /\ messages' = [messages EXCEPT ![s] = <<>>]
    /\ exc' = [exc EXCEPT ![s] = NoExc]
    /\ UNCHANGED <<store, clock, logged_in, user_id, pc, turn>>
    /\ UNCHANGED <<pending, calls>>

\* The button of conversation c in the sidebar.
SelectConversation(s, c) ==
    /\ Idle(s)
    /\ logged_in[s]
    /\ c \in get_user_conversations(user_id[s])
    /\ current_conversation_id' = [current_conversation_id EXCEPT ![s] = c]
    /\ messages' = [messages EXCEPT ![s] = load_current_chat(c)]
    /\ exc' = [exc EXCEPT ![s] = NoExc]
    /\ UNCHANGED <<store, clock, logged_in, user_id, pc, turn>>
    /\ UNCHANGED <<pending, calls>>

\* The bin button of conversation c in the sidebar.
DeleteConversation(s, c) ==
    /\ Idle(s)
    /\ logged_in[s]
    /\ c \in get_user_conversations(user_id[s])
    /\ LET after == delete_conversation(c)
       IN /\ convs' = after.convs
          /\ msgs' = after.msgs
    /\ IF current_conversation_id[s] = c
       THEN /\ current_conversation_id' =
                   [current_conversation_id EXCEPT ![s] = None]
            /\ messages' = [messages EXCEPT ![s] = <<>>]
       ELSE UNCHANGED <<current_conversation_id, messages>>
    /\ exc' = [exc EXCEPT ![s] = NoExc]
    /\ UNCHANGED <<nextConvId, nextMsgId, clock, logged_in, user_id, pc, turn>>
    /\ UNCHANGED <<pending, calls>>

\* The Clear All History button.
ClearAll(s) ==
    /\ Idle(s)
    /\ logged_in[s]
    /\ LET after == delete_all_conversations(user_id[s])
       IN /\ convs' = after.convs
          /\ msgs' = after.msgs
    /\ current_conversation_id' = [current_conversation_id EXCEPT ![s] = None]
    /\ messages' = [messages EXCEPT ![s] = <<>>]
    /\ exc' = [exc EXCEPT ![s] = NoExc]
    /\ UNCHANGED <<nextConvId, nextMsgId, clock, logged_in, user_id, pc, turn>>
    /\ UNCHANGED <<pending, calls>>

\* st.chat_input gives p: the prompt is shown, and a chat with no conversation
\* gets one (create_conversation commits, or raises and ends the run).
SubmitQuestion(s, p) ==
    /\ Idle(s)
    /\ logged_in[s]
    /\ Len(messages[s]) + 2 <= MaxShown
    /\ messages' = [messages EXCEPT
                      ![s] = Append(@, [role |-> "user", content |-> p])]
    /\ IF needs_conversation(s)
       THEN \/ /\ RowsInserted < MaxRows
               /\ \E t \in utcnow(clock) :
                    LET after == create_conversation(user_id[s], NEW_CHAT, t)
                    IN /\ convs' = after.convs
                       /\ msgs' = after.msgs
                       /\ clock' = t
               /\ current_conversation_id' =
                      [current_conversation_id EXCEPT ![s] = nextConvId]
               /\ nextConvId' = nextConvId + 1
               /\ pc' = [pc EXCEPT ![s] = "add_user"]
               /\ prompt' = [prompt EXCEPT ![s] = p]
               /\ exc' = [exc EXCEPT ![s] = NoExc]
            \/ /\ exc' = [exc EXCEPT ![s] = Raised("create_conversation", "store")]
               /\ UNCHANGED <<convs, msgs, nextConvId, clock,
                              current_conversation_id, pc, prompt>>
       ELSE /\ pc' = [pc EXCEPT ![s] = "add_user"]
            /\ prompt' = [prompt EXCEPT ![s] = p]
            /\ exc' = [exc EXCEPT ![s] = NoExc]
            /\ UNCHANGED <<convs, msgs, nextConvId, clock,
                           current_conversation_id>>
    /\ UNCHANGED <<nextMsgId, logged_in, user_id, full_response, response,
                   raised>>
    /\ UNCHANGED <<pending, calls>>

\* add_message(cid, role, content) called by session s: it commits, or it
\* raises (no such conversation, or the store fails) and rolls back.
add_message(s, role, content, ok) ==
    LET cid == current_conversation_id[s] IN
    \E t1 \in utcnow(clock) : \E t2 \in utcnow(t1) :
        LET after == IF ok
                     THEN add_message_commit(cid, role, content, t1, t2)
                     ELSE add_message_rollback(cid, role, content, t1, t2)
        IN /\ ok => (~add_message_raises(cid) /\ RowsInserted < MaxRows)
           /\ convs' = after.convs
           /\ msgs' = after.msgs
           /\ nextMsgId' = IF ok THEN nextMsgId + 1 ELSE nextMsgId
           /\ clock' = IF ok THEN t2 ELSE clock

\* Why add_message raised in session s.
why(s) ==
    IF add_message_raises(current_conversation_id[s])
    THEN "no_conversation"
    ELSE "store"

\* add_message(current_conversation_id, "user", prompt)
AddUserMessage(s) ==
    /\ pc[s] = "add_user"
    /\ \E ok \in BOOLEAN :
         /\ add_message(s, "user", prompt[s], ok)
         /\ IF ok
            THEN /\ pc' = [pc EXCEPT ![s] = "stream"]
                 /\ UNCHANGED <<turn, exc>>
            ELSE /\ EndRun(s)
                 /\ exc' = [exc EXCEPT ![s] = Raised("add_user", why(s))]
    /\ UNCHANGED <<nextConvId, session>>
    /\ UNCHANGED <<pending, calls>>

\* for chunk in stream: full_response += chunk; yield chunk
StreamChunk(s, chunk) ==
    /\ pc[s] = "stream"
    /\ Len(full_response[s]) + Len(chunk) <= MaxChunks * Len(chunk)
    /\ full_response' = [full_response EXCEPT ![s] = @ \o chunk]
    /\ response' = [response EXCEPT ![s] = @ \o chunk]
    /\ UNCHANGED <<store, clock, session, pc, prompt, raised, exc>>
    /\ UNCHANGED <<pending, calls>>

\* The stream is exhausted: st.write_stream returns what it received.
StreamEnd(s) ==
    /\ pc[s] = "stream"
    /\ pc' = [pc EXCEPT ![s] = "add_assistant"]
    /\ UNCHANGED <<store, clock, session, turn, exc>>
    /\ UNCHANGED <<pending, calls>>

\* except Exception as e: yield f"Error: {e}"
StreamError(s, e) ==
    /\ pc[s] = "stream"
    /\ raised' = [raised EXCEPT ![s] = TRUE]
    /\ response' = [response EXCEPT ![s] = @ \o ErrorPrefix \o e]
    /\ pc' = [pc EXCEPT ![s] = "add_assistant"]
    /\ UNCHANGED <<store, clock, session, prompt, full_response, exc>>
    /\ UNCHANGED <<pending, calls>>

\* A widget event during st.write_stream: the run is stopped where it stands.
Abandon(s) ==
    /\ pc[s] = "stream"
    /\ EndRun(s)
    /\ UNCHANGED <<store, clock, session, exc>>
    /\ UNCHANGED <<pending, calls>>

\* messages.append(assistant); add_message(.., "assistant", response)
AddAssistantMessage(s) ==
    /\ pc[s] = "add_assistant"
    /\ messages' = [messages EXCEPT
                      ![s] = Append(@, [role |-> "assistant",
                                        content |-> response[s]])]
    /\ \E ok \in BOOLEAN :
         /\ add_message(s, "assistant", response[s], ok)
         /\ exc' = [exc EXCEPT ![s] = IF ok THEN NoExc
                                       ELSE Raised("add_assistant", why(s))]
    /\ EndRun(s)
    /\ UNCHANGED <<nextConvId, logged_in, user_id, current_conversation_id>>
    /\ UNCHANGED <<pending, calls>>

\* A sidebar event of session s, its users drawn from US.
Manage(s, US) ==
    \/ \E u \in US : Login(s, u)
    \/ Logout(s)
    \/ NewChat(s)
    \/ \E c \in DOMAIN convs : SelectConversation(s, c)
    \/ \E c \in DOMAIN convs : DeleteConversation(s, c)
    \/ ClearAll(s)

\* A step of a turn of session s, its questions drawn from PS.
Ask(s, PS) ==
    \/ \E p \in PS : SubmitQuestion(s, p)
    \/ AddUserMessage(s)
    \/ \E chunk \in Chunks : StreamChunk(s, chunk)
    \/ StreamEnd(s)
    \/ \E e \in Exceptions : StreamError(s, e)
    \/ AddAssistantMessage(s)

\* A second tab that logs in and deletes.
Purge(s, US) ==
    \/ \E u \in US : Login(s, u)
    \/ \E c \in DOMAIN convs : DeleteConversation(s, c)
    \/ ClearAll(s)

\* One browser session, used by either user in turn.
Next == Manage(1, Users) \/ Ask(1, Prompts) \/ Abandon(1)

Spec == Init /\ [][Next]_vars

\* The same session when every run is left to finish.
NextRuns == Manage(1, Users) \/ Ask(1, Prompts)

SpecRuns == Init /\ [][NextRuns]_vars

\* Two browser sessions on the one store: the first asks, and the second
\* deletes between any two steps of the first.
NextTabs ==
    Manage(1, Users) \/ Ask(1, {Hi}) \/ Abandon(1) \/ Purge(2, Users)

SpecTabs == Init /\ [][NextTabs]_vars

\* One browser session that asks the short question only, every run left to
\* finish: the sidebar's deletions over the rows such runs leave.
NextSidebar == Manage(1, Users) \/ Ask(1, {Hi})

SpecSidebar == Init /\ [][NextSidebar]_vars

\* One user in two tabs: the first asks the short question, and the second
\* deletes between any two steps of the first.
NextStale == Login(1, 1) \/ NewChat(1) \/ Ask(1, {Hi}) \/ Purge(2, {1})

SpecStale == Init /\ [][NextStale]_vars

\* ---------------------------------------------- add_message, step by step
\* The rows with w at its place by id, the order of created_at.
insert_row(rows, w) ==
    LET Before(m) == m.id < w.id
        After(m) == m.id > w.id
    IN SelectSeq(rows, Before) \o <<w>> \o SelectSeq(rows, After)

\* The role and the content of the write session s stands at.
role_at(s) == IF pc[s] = "add_user" THEN "user" ELSE "assistant"
content_at(s) == IF pc[s] = "add_user" THEN prompt[s] ELSE response[s]

\* st.session_state.messages as the write session s stands at finds it:
\* the assistant message is appended before add_message is called.
messages_at(s) ==
    IF pc[s] = "add_assistant"
    THEN Append(messages[s], [role |-> "assistant", content |-> response[s]])
    ELSE messages[s]

\* add_message down to conv.updated_at = datetime.utcnow(): the message is
\* flushed under the next id, the conversation is read, and the title and
\* the time to write are set on the session's copy of it.
BeginAddMessage(s) ==
    /\ pc[s] \in {"add_user", "add_assistant"}
    /\ pending[s] = <<>>
    /\ ~add_message_raises(current_conversation_id[s])
    /\ RowsInserted < MaxRows
    /\ \E t1 \in utcnow(clock) : \E t2 \in utcnow(t1) :
         LET cid == current_conversation_id[s]
         IN /\ pending' = [pending EXCEPT ![s] =
                   <<[id |-> nextMsgId, conversation_id |-> cid,
                      role |-> role_at(s), content |-> content_at(s),
                      created_at |-> t1,
                      title |-> title_after(convs[cid], role_at(s),
                                            content_at(s)),
                      read_title |-> convs[cid].title,
                      updated_at |-> t2]>>]
            /\ clock' = t2
    /\ nextMsgId' = nextMsgId + 1
    /\ messages' = [messages EXCEPT ![s] = messages_at(s)]
    /\ UNCHANGED <<convs, msgs, nextConvId, logged_in, user_id,
                   current_conversation_id, pc, turn, exc, calls>>

\* session.commit() of the add_message session s has open: the row and the
\* attributes set on the conversation are written; a conversation deleted
\* in between breaks the foreign key, and add_message rolls back and raises.
CommitAddMessage(s) ==
    /\ pending[s] # <<>>
    /\ LET w == pending[s][1]
           cid == w.conversation_id
       IN IF cid \in DOMAIN convs
          THEN /\ convs' = [convs EXCEPT
                              ![cid].title = IF w.title # w.read_title
                                             THEN w.title ELSE @,
                              ![cid].updated_at = w.updated_at]
               /\ msgs' = insert_row(msgs,
                      [id |-> w.id, conversation_id |-> cid,
                       role |-> w.role, content |-> w.content,
                       created_at |-> w.created_at])
               /\ IF pc[s] = "add_user"
                  THEN /\ pc' = [pc EXCEPT ![s] = "stream"]
                       /\ UNCHANGED <<turn, exc>>
                  ELSE /\ EndRun(s)
                       /\ exc' = [exc EXCEPT ![s] = NoExc]
          ELSE /\ UNCHANGED <<convs, msgs>>
               /\ EndRun(s)
               /\ exc' = [exc EXCEPT ![s] = Raised(pc[s], "no_conversation")]
    /\ pending' = [pending EXCEPT ![s] = <<>>]
    /\ UNCHANGED <<nextConvId, nextMsgId, clock, session, calls>>

\* add_message raising before it reads the time: the store fails, or no
\* conversation has the id.
FailAddMessage(s) ==
    /\ pc[s] \in {"add_user", "add_assistant"}
    /\ pending[s] = <<>>
    /\ messages' = [messages EXCEPT ![s] = messages_at(s)]
    /\ EndRun(s)
    /\ exc' = [exc EXCEPT ![s] = Raised(pc[s], why(s))]
    /\ UNCHANGED <<store, clock, logged_in, user_id, current_conversation_id,
                   pending, calls>>

\* A tab of user u: it logs in, opens a conversation and asks, each write
\* in its two steps.
Writer(s, u) ==
    \/ Login(s, u)
    \/ \E c \in DOMAIN convs : SelectConversation(s, c)
    \/ SubmitQuestion(s, Hi)
    \/ BeginAddMessage(s)
    \/ CommitAddMessage(s)
    \/ FailAddMessage(s)
    \/ \E chunk \in Chunks : StreamChunk(s, chunk)
    \/ StreamEnd(s)
    \/ \E e \in Exceptions : StreamError(s, e)

\* Two tabs of one user, their scripts on two threads.
NextWriters == \E s \in Sessions : Writer(s, 1)

SpecWriters == Init /\ [][NextWriters]_vars

\* ------------------------------------------------- add_message, by itself
\* The variables of the store and of the browser sessions.
app == <<store, clock, session, pc, turn, exc, pending>>

\* Messages of up to MaxContent characters: a's, then b's.
Contents ==
    {[i \in 1..n |-> IF i <= k THEN "a" ELSE "b"] :
        n \in 0..MaxContent, k \in 0..MaxContent}

InitTitle ==
    /\ NoRequest
    /\ first_message \in Contents
    /\ conv_title = <<>>
    /\ NoContext /\ NoHistory /\ NoLoad
    /\ ran = "none"

\* add_message(cid, "user", first_message) on a conversation that
\* create_conversation has just made: what it leaves in conv.title.
FirstMessage ==
    /\ ran = "none"
    /\ conv_title' = title_after([title |-> NEW_CHAT], "user", first_message)
    /\ ran' = "add_message"
    /\ UNCHANGED <<app, first_message, vectorstore, retrieved, labelled,
                   used, context, turns, chat_history>>
    /\ UNCHANGED loader

SpecTitle == InitTitle /\ [][FirstMessage]_vars

\* --------------------------------------------------------------- rag chain
\* The text of src/src/rag_chain.py and rebuild_vectorstore.py.
Redirecting ==
    <<"R", "e", "d", "i", "r", "e", "c", "t", "i", "n", "g">>
SkipToMainContent ==
    <<"S", "k", "i", "p", " ", "t", "o", " ", "m", "a", "i", "n", " ", "c",
      "o", "n", "t", "e", "n", "t">>
SkipTo ==
    <<"S", "k", "i", "p", " ", "t", "o">>
Docs ==
    <<"D", "o", "c", "s">>
Search ==
    <<"S", "e", "a", "r", "c", "h">>
Home ==
    <<"H", "o", "m", "e">>
ApiReference ==
    <<"A", "P", "I", " ", "R", "e", "f", "e", "r", "e", "n", "c", "e">>
Tutorials ==
    <<"T", "u", "t", "o", "r", "i", "a", "l", "s">>
\* line in ['', 'Docs', 'Search', 'Home', 'API Reference', 'Tutorials']
Navigation == {<<>>, Docs, Search, Home, ApiReference, Tutorials}
DocumentTag ==
    <<"[", "D", "o", "c", "u", "m", "e", "n", "t", " ">>
Separator ==
    <<"\n", "-", "-", "-", "\n">>
NoDocumentation ==
    <<"N", "o", " ", "r", "e", "l", "e", "v", "a", "n", "t", " ", "d", "o",
      "c", "u", "m", "e", "n", "t", "a", "t", "i", "o", "n", " ", "f", "o",
      "u", "n", "d", " ", "i", "n", " ", "t", "h", "e", " ", "k", "n", "o",
      "w", "l", "e", "d", "g", "e", " ", "b", "a", "s", "e", ".">>
NoPreviousConversation ==
    <<"N", "o", " ", "p", "r", "e", "v", "i", "o", "u", "s", " ", "c", "o",
      "n", "v", "e", "r", "s", "a", "t", "i", "o", "n", ".">>
UserPrefix ==
    <<"U", "s", "e", "r", ":", " ">>
AssistantPrefix ==
    <<"A", "s", "s", "i", "s", "t", "a", "n", "t", ":", " ">>
source_framework ==
    <<"s", "o", "u", "r", "c", "e", "_", "f", "r", "a", "m", "e", "w", "o",
      "r", "k">>
unknown ==
    <<"u", "n", "k", "n", "o", "w", "n">>
MinStripped == 100     \* len(content.strip()) < 100
NavMax == 200          \* len(content) < 200
MinClean == 50         \* len(clean_content) > 50
MaxDocuments == 5      \* len(formatted) >= 5
SearchK == 10          \* search_kwargs={"k": 10}
MaxSkipTo == 2         \* content.count('Skip to') > 2
Window == 3            \* history[-3:]

\* What str.strip() removes.
Whitespace == {" ", "\t", "\n", "\r"}
Lower ==
    <<"a", "b", "c", "d", "e", "f", "g", "h", "i", "j", "k", "l", "m", "n",
      "o", "p", "q", "r", "s", "t", "u", "v", "w", "x", "y", "z">>
Upper ==
    <<"A", "B", "C", "D", "E", "F", "G", "H", "I", "J", "K", "L", "M", "N",
      "O", "P", "Q", "R", "S", "T", "U", "V", "W", "X", "Y", "Z">>
Digits == <<"0", "1", "2", "3", "4", "5", "6", "7", "8", "9">>

\* needle in text
Has(text, needle) ==
    \E i \in 1..(Len(text) - Len(needle) + 1) :
        \A j \in 1..Len(needle) : text[i + j - 1] = needle[j]

\* text.count(needle): the occurrences met from the left, none overlapping.
RECURSIVE count_from(_, _, _)
count_from(text, needle, from) ==
    LET hits == {i \in from..(Len(text) - Len(needle) + 1) :
                    \A j \in 1..Len(needle) : text[i + j - 1] = needle[j]}
    IN IF hits = {} THEN 0
       ELSE LET hit == CHOOSE i \in hits : \A j \in hits : i <= j
            IN 1 + count_from(text, needle, hit + Len(needle))

count(text, needle) == count_from(text, needle, 1)

\* text.strip(): from the first to the last character that is no whitespace.
RECURSIVE lstrip_at(_, _)
lstrip_at(text, i) ==
    IF i > Len(text) \/ text[i] \notin Whitespace
    THEN i ELSE lstrip_at(text, i + 1)

RECURSIVE rstrip_at(_, _)
rstrip_at(text, i) ==
    IF i < 1 \/ text[i] \notin Whitespace
    THEN i ELSE rstrip_at(text, i - 1)

strip(text) == SubSeq(text, lstrip_at(text, 1), rstrip_at(text, Len(text)))

\* text.split(sep) for a separator of one character.
RECURSIVE split_from(_, _, _)
split_from(text, sep, from) ==
    LET cuts == {i \in from..Len(text) : text[i] = sep}
    IN IF cuts = {} THEN <<SubSeq(text, from, Len(text))>>
       ELSE LET cut == CHOOSE i \in cuts : \A j \in cuts : i <= j
            IN <<SubSeq(text, from, cut - 1)>>
                   \o split_from(text, sep, cut + 1)

split(text, sep) == split_from(text, sep, 1)

\* sep.join(parts)
RECURSIVE join(_, _)
join(sep, parts) ==
    IF parts = <<>> THEN <<>>
    ELSE IF Len(parts) = 1 THEN parts[1]
    ELSE parts[1] \o sep \o join(sep, Tail(parts))

\* text.upper(), for the letters a to z.
upper(text) ==
    [i \in 1..Len(text) |->
        IF \E n \in 1..Len(Lower) : Lower[n] = text[i]
        THEN Upper[CHOOSE n \in 1..Len(Lower) : Lower[n] = text[i]]
        ELSE text[i]]

\* str(n) for n >= 0
RECURSIVE str(_)
str(n) ==
    IF n < 10 THEN <<Digits[n + 1]>>
    ELSE str(n \div 10) \o <<Digits[(n % 10) + 1]>>

\* history[-n:]
last(history, n) ==
    SubSeq(history, IF Len(history) > n THEN Len(history) - n + 1 ELSE 1,
           Len(history))

\* format_docs without the test for redirect pages.
is_redirect_never(page_content) == FALSE

\* 'Redirecting' in content
is_redirect(page_content) == Has(page_content, Redirecting)

\* The test for short content taking 100 characters for short too.
too_short_inclusive(page_content) == Len(strip(page_content)) <= MinStripped

\* len(content.strip()) < 100
too_short(page_content) == Len(strip(page_content)) < MinStripped

\* 'Skip to main content' in content and len(content) < 200
is_navigation(page_content) ==
    Has(page_content, SkipToMainContent) /\ Len(page_content) < NavMax

\* format_docs' clean-up of one document: the lines, each stripped, those of
\* the navigation list left out, joined by a space.
clean_content(page_content) ==
    LET lines == split(page_content, "\n")
        stripped == [i \in 1..Len(lines) |-> strip(lines[i])]
        Kept(line) == line \notin Navigation
    IN join(<<" ">>, SelectSeq(stripped, Kept))

\* A document of the collection: its text and metadata.
Document(page_content, metadata) ==
    [page_content |-> page_content, metadata |-> metadata]

From(framework) == (source_framework :> framework)

Fill(ch, n) == [i \in 1..n |-> ch]
LineBreak == <<"\n">>
langchain ==
    <<"l", "a", "n", "g", "c", "h", "a", "i", "n">>
langgraph ==
    <<"l", "a", "n", "g", "g", "r", "a", "p", "h">>

\* The chunks the loaders can produce that are drawn here: one for each way
\* through the filters.
Plain == Document(Fill("a", 120), From(langchain))
Redirect == Document(Redirecting \o Fill("b", 120), From(langchain))
Short99 == Document(<<" ">> \o Fill("c", 99) \o LineBreak, From(langchain))
Exactly100 == Document(<<" ">> \o Fill("d", 100) \o LineBreak, From(langgraph))
NavShort ==
    Document(SkipToMainContent \o LineBreak \o Fill("e", 120), From(langchain))
NavLong ==
    Document(SkipToMainContent \o LineBreak \o SkipToMainContent \o LineBreak
                 \o SkipToMainContent \o LineBreak \o Fill("f", 140),
             From(langgraph))
Menu50 ==
    Document(Fill("g", 50) \o LineBreak \o Fill(" ", 60) \o LineBreak \o Docs,
             From(langchain))
Menu51 ==
    Document(Search \o LineBreak \o Fill("h", 51) \o LineBreak
                 \o Fill(" ", 60) \o LineBreak \o Home,
             <<>>)

Chunked ==
    {Plain, Redirect, Short99, Exactly100, NavShort, NavLong, Menu50, Menu51}

\* One pass of format_docs' loop down to its append, for each chunk: whether
\* a continue ends it, and the clean_content it gets to.
pass ==
    [doc \in Chunked |->
        [continues |-> \/ is_redirect(doc.page_content)
                       \/ too_short(doc.page_content)
                       \/ is_navigation(doc.page_content),
         clean_content |-> clean_content(doc.page_content)]]

\* doc.metadata.get('source_framework', 'unknown')
source(doc) ==
    IF source_framework \in DOMAIN doc.metadata
    THEN doc.metadata[source_framework]
    ELSE unknown

\* The label counting from 0: len(formatted) in place of len(formatted)+1.
entry_from_zero(n, doc) ==
    DocumentTag \o str(n - 1) \o <<" ", "-", " ">> \o upper(source(doc))
        \o <<"]">> \o LineBreak \o pass[doc].clean_content \o LineBreak

\* f"[Document {len(formatted)+1} - {source.upper()}]\n{clean_content}\n"
entry(n, doc) ==
    DocumentTag \o str(n) \o <<" ", "-", " ">> \o upper(source(doc))
        \o <<"]">> \o LineBreak \o pass[doc].clean_content \o LineBreak

\* The loop left one document late: len(formatted) > 5.
full_late(formatted) == Len(formatted) > MaxDocuments

\* if len(formatted) >= 5: break
full(formatted) == Len(formatted) >= MaxDocuments

\* format_docs' loop from document i on; at holds the values of i at which
\* it has appended.
RECURSIVE format_docs_from(_, _, _, _)
format_docs_from(docs, i, formatted, at) ==
    IF i > Len(docs) THEN [formatted |-> formatted, at |-> at]
    ELSE IF pass[docs[i]].continues
    THEN format_docs_from(docs, i + 1, formatted, at)
    ELSE LET appends == Len(pass[docs[i]].clean_content) > MinClean
             formatted2 == IF appends
                           THEN Append(formatted,
                                       entry(Len(formatted) + 1, docs[i]))
                           ELSE formatted
             at2 == IF appends THEN Append(at, i) ELSE at
         IN IF full(formatted2)
            THEN [formatted |-> formatted2, at |-> at2]
            ELSE format_docs_from(docs, i + 1, formatted2, at2)

\* The return of format_docs joining an empty list too.
returns_joined(formatted) == join(Separator, formatted)

\* "\n---\n".join(formatted) if formatted else "No relevant ..."
returns(formatted) ==
    IF formatted # <<>> THEN join(Separator, formatted) ELSE NoDocumentation

\* format_docs(docs): its list, where it appended, and what it returns.
format_docs(docs) ==
    LET loop == format_docs_from(docs, 1, <<>>, <<>>)
    IN [formatted |-> loop.formatted, at |-> loop.at,
        result |-> returns(loop.formatted)]

\* retriever.invoke(question): the k chunks most similar to the question.
retrieve(collection) ==
    SubSeq(collection, 1,
           IF Len(collection) > SearchK THEN SearchK ELSE Len(collection))

\* filter_good_documents' test of each chunk.
good ==
    [doc \in Chunked |->
        /\ ~Has(doc.page_content, Redirecting)
        /\ ~(Len(strip(doc.page_content)) < MinStripped)
        /\ ~(count(doc.page_content, SkipTo) > MaxSkipTo)]

\* filter_good_documents(chunks)
filter_good_documents(chunks) ==
    LET Good(chunk) == good[chunk] IN SelectSeq(chunks, Good)

\* Collections in the order of similarity to the question asked: a run of
\* one chunk, then a few of any.
Collections ==
    {Fill(doc, n) \o rest :
        doc \in Chunked, n \in 0..MaxRun,
        rest \in UNION {[1..m -> Chunked] : m \in 0..MaxMixed}}

InitContext ==
    /\ NoRequest /\ NoTitle /\ NoHistory /\ NoLoad
    /\ vectorstore \in Collections
    /\ retrieved = <<>>
    /\ labelled = <<>>
    /\ used = <<>>
    /\ context = <<>>
    /\ ran = "none"

\* rebuild_vectorstore: the collection is made again of the good chunks (with
\* none, it returns before making one).
RebuildVectorstore ==
    /\ ran = "none"
    /\ filter_good_documents(vectorstore) # <<>>
    /\ vectorstore' = filter_good_documents(vectorstore)
    /\ UNCHANGED <<app, first_message, conv_title, retrieved, labelled, used,
                   context, turns, chat_history, ran>>
    /\ UNCHANGED loader

\* get_context: docs = retriever.invoke(question); format_docs(docs).
GetContext ==
    /\ ran = "none"
    /\ retrieved' = retrieve(vectorstore)
    /\ LET out == format_docs(retrieve(vectorstore))
       IN /\ labelled' = out.formatted
          /\ used' = out.at
          /\ context' = out.result
    /\ ran' = "get_context"
    /\ UNCHANGED <<app, first_message, conv_title, vectorstore, turns,
                   chat_history>>
    /\ UNCHANGED loader

SpecContext == InitContext /\ [][RebuildVectorstore \/ GetContext]_vars

\* format_chat_history without its test for an empty history.
format_chat_history_joined(history) ==
    LET formatted ==
            [i \in 1..(2 * Len(history)) |->
                IF i % 2 = 1
                THEN UserPrefix \o history[(i + 1) \div 2][1]
                ELSE AssistantPrefix \o history[i \div 2][2]]
    IN join(LineBreak, formatted)

\* format_chat_history appending the assistant's line before the user's.
format_chat_history_ai_first(history) ==
    IF history = <<>> THEN NoPreviousConversation
    ELSE LET formatted ==
                 [i \in 1..(2 * Len(history)) |->
                     IF i % 2 = 1
                     THEN AssistantPrefix \o history[(i + 1) \div 2][2]
                     ELSE UserPrefix \o history[i \div 2][1]]
         IN join(LineBreak, formatted)

\* format_chat_history(history)
format_chat_history(history) ==
    IF history = <<>> THEN NoPreviousConversation
    ELSE LET formatted ==
                 [i \in 1..(2 * Len(history)) |->
                     IF i % 2 = 1
                     THEN UserPrefix \o history[(i + 1) \div 2][1]
                     ELSE AssistantPrefix \o history[i \div 2][2]]
         IN join(LineBreak, formatted)

\* x.get(key, default)
get(x, key, default) == IF key \in DOMAIN x THEN x[key] ELSE default

\* The chain's "chat_history" entry:
\* lambda x: format_chat_history(x.get("chat_history", []))
chat_history_of(x) == format_chat_history(get(x, "chat_history", <<>>))

Question1 ==
    <<"W", "h", "a", "t", " ", "i", "s", " ", "R", "A", "G", "?">>
Answer1 ==
    <<"R", "e", "t", "r", "i", "e", "v", "a", "l", ".">>
Question2 ==
    <<"A", "n", "d", " ", "a", " ", "c", "h", "a", "i", "n", "?">>
Answer2 ==
    <<"A", " ", "p", "i", "p", "e", "l", "i", "n", "e", ".">>
Question3 ==
    <<"S", "t", "e", "p", "s", "?">>
\* An answer of two lines.
Answer3 ==
    <<"L", "o", "a", "d", ".", "\n", "S", "p", "l", "i", "t", ".">>

\* Histories of up to MaxTurns (human, ai) pairs.
Histories ==
    UNION {[1..n -> {<<Question1, Answer1>>, <<Question2, Answer2>>,
                     <<Question3, Answer3>>}] :
              n \in 0..MaxTurns}

InitHistory ==
    /\ NoRequest /\ NoTitle /\ NoContext /\ NoLoad
    /\ turns \in Histories
    /\ chat_history = <<>>
    /\ ran = "none"

\* ask_question(question, chat_history): the chain is given the history as
\* it is.
AskQuestion ==
    /\ ran = "none"
    /\ chat_history' =
           chat_history_of([question |-> Question1, chat_history |-> turns])
    /\ ran' = "ask_question"
    /\ UNCHANGED <<app, first_message, conv_title, vectorstore, retrieved,
                   labelled, used, context, turns>>
    /\ UNCHANGED loader

\* The chat page's call of the chain: "chat_history": history[-3:].
StreamResponse ==
    /\ ran = "none"
    /\ chat_history' =
           chat_history_of([question |-> Question1,
                            chat_history |-> last(turns, Window)])
    /\ ran' = "stream_response"
    /\ UNCHANGED <<app, first_message, conv_title, vectorstore, retrieved,
                   labelled, used, context, turns>>
    /\ UNCHANGED loader

\* rag_chain.invoke(x) on an input with a question and no "chat_history".
InvokeChain ==
    /\ ran = "none"
    /\ chat_history' = chat_history_of([question |-> Question1])
    /\ ran' = "invoke"
    /\ UNCHANGED <<app, first_message, conv_title, vectorstore, retrieved,
                   labelled, used, context, turns>>
    /\ UNCHANGED loader

SpecHistory ==
    InitHistory /\ [][AskQuestion \/ StreamResponse \/ InvokeChain]_vars

\* -------------------------------------------------------------- doc loader
chunk_size == 1000     \* split_documents(documents, chunk_size=1000, ..)
chunk_overlap == 200   \* split_documents(.., chunk_overlap=200)
source_url ==
    <<"s", "o", "u", "r", "c", "e", "_", "u", "r", "l">>

\* The n-th URL of a list.
url_of(n) == <<"u", "r", "l", Digits[n + 1]>>

\* Pages as WebBaseLoader gives them: one that fits a chunk and one that
\* takes two, neither with a separator in it.
OnePage == Document(Fill("p", 120), <<>>)
LongPage == Document(Fill("q", 1200), <<>>)

\* loader.load() for one URL: a list of documents, or an exception.
Loads ==
    {[ok |-> FALSE, docs |-> <<>>],
     [ok |-> TRUE, docs |-> <<OnePage>>],
     [ok |-> TRUE, docs |-> <<LongPage>>]}

\* URL lists of up to MaxUrls entries, each with what loading it gives.
Webs ==
    UNION {{[i \in 1..n |-> [url |-> url_of(i), ok |-> loads[i].ok,
                             docs |-> loads[i].docs]] :
               loads \in [1..n -> Loads]} : n \in 0..MaxUrls}

\* doc.metadata[key] = value
with_metadata(doc, key, value) ==
    [doc EXCEPT !.metadata = (key :> value) @@ @]

\* The loop of load_documents_from_urls from the i-th URL on: the documents
\* of a URL that loads get the two metadata entries and are put on all_docs
\* by each of the two extend calls; a URL that raises adds nothing.
RECURSIVE load_documents_from(_, _, _, _)
load_documents_from(urls, source_name, i, loaded) ==
    IF i > Len(urls) THEN loaded
    ELSE IF urls[i].ok
    THEN LET docs == [n \in 1..Len(urls[i].docs) |->
                         with_metadata(
                             with_metadata(urls[i].docs[n],
                                           source_framework, source_name),
                             source_url, urls[i].url)]
         IN load_documents_from(urls, source_name, i + 1,
                                (loaded \o docs) \o docs)
    ELSE load_documents_from(urls, source_name, i + 1, loaded)

\* load_documents_from_urls(urls, source_name)
load_documents_from_urls(urls, source_name) ==
    load_documents_from(urls, source_name, 1, <<>>)

\* RecursiveCharacterTextSplitter.split_text for a text with no separator
\* in it: pieces of chunk_size characters, each starting chunk_overlap
\* before the end of the one before it, the last one shorter.
RECURSIVE split_text_from(_, _)
split_text_from(text, from) ==
    IF Len(text) - from + 1 <= chunk_size
    THEN <<SubSeq(text, from, Len(text))>>
    ELSE <<SubSeq(text, from, from + chunk_size - 1)>>
             \o split_text_from(text, from + chunk_size - chunk_overlap)

split_text(text) == IF text = <<>> THEN <<>> ELSE split_text_from(text, 1)

\* The pieces of each page drawn.
pieces ==
    [text \in {OnePage.page_content, LongPage.page_content} |->
        split_text(text)]

\* text_splitter.split_documents(documents): for each document in turn,
\* each piece of its text with the document's metadata.
RECURSIVE splitter_split_documents(_)
splitter_split_documents(documents) ==
    IF documents = <<>> THEN <<>>
    ELSE LET doc == documents[1]
         IN [n \in 1..Len(pieces[doc.page_content]) |->
                Document(pieces[doc.page_content][n], doc.metadata)]
                \o splitter_split_documents(Tail(documents))

\* split_documents(documents): chunks is assigned the splitter's result
\* twice, and the second assignment is returned.
split_documents(documents) ==
    LET chunks1 == splitter_split_documents(documents)
        chunks2 == splitter_split_documents(documents)
    IN chunks2

InitLoader ==
    /\ NoRequest /\ NoTitle /\ NoContext /\ NoHistory
    /\ web \in Webs
    /\ all_docs = <<>>
    /\ all_chunks = <<>>
    /\ ran = "none"

\* load_documents_from_urls(urls, source_name), as load_all_documentation
\* calls it for a framework.
LoadDocumentsFromUrls ==
    /\ ran = "none"
    /\ \E source_name \in {langchain, langgraph} :
           all_docs' = load_documents_from_urls(web, source_name)
    /\ ran' = "load_documents_from_urls"
    /\ UNCHANGED <<app, first_message, conv_title, vectorstore, retrieved,
                   labelled, used, context, turns, chat_history, web,
                   all_chunks>>

\* chunks = split_documents(all_docs)
SplitDocuments ==
    /\ ran = "load_documents_from_urls"
    /\ all_chunks' = split_documents(all_docs)
    /\ ran' = "split_documents"
    /\ UNCHANGED <<app, first_message, conv_title, vectorstore, retrieved,
                   labelled, used, context, turns, chat_history, web,
                   all_docs>>

SpecLoader == InitLoader /\ [][LoadDocumentsFromUrls \/ SplitDocuments]_vars

\* ================================================================== claims
Quiet == \A s \in Sessions : Idle(s)

\* The step is session s's add_message(.., "assistant", ..) committing.
AssistantCommitted(s) ==
    /\ pc[s] = "add_assistant"
    /\ pc'[s] = "idle"
    /\ exc'[s] = NoExc

\* The step is session s's add_message(.., "assistant", ..) raising.
AssistantRaised(s) ==
    /\ pc[s] = "add_assistant"
    /\ pc'[s] = "idle"
    /\ exc'[s].call = "add_assistant"

\* C1: lazy creation: whenever no run is in progress, every conversation of
\* the store has at least one persisted message.
C1_NoEmptyConversation ==
    Quiet => \A c \in DOMAIN convs : Len(get_conversation_messages(c)) >= 1

HasUserMessage(c) ==
    \E i \in 1..Len(msgs) :
        msgs[i].conversation_id = c /\ msgs[i].role = "user"

\* C2: the title is derived once: a conversation that already holds a user
\* message keeps its title in every later step.
C2_TitleDerivedOnce ==
    [][\A c \in DOMAIN convs :
          (c \in DOMAIN convs' /\ HasUserMessage(c))
              => convs'[c].title = convs[c].title]_vars

\* C3: the assistant message a turn persists is the concatenation, in yield
\* order, of the fragments the chain yielded in that turn, and nothing else.
C3_PersistedIsConcatOfFragments ==
    [][\A s \in Sessions :
          AssistantCommitted(s)
              => msgs'[Len(msgs')].content = full_response[s]]_vars

\* C4: when the chain raises, the stream does not end as a completed one and
\* carries no error text: what was streamed is what the chain yielded.
C4_FailureSignalledApartFromContent ==
    \A s \in Sessions :
        raised[s] => (pc[s] # "add_assistant"
                        /\ response[s] = full_response[s])

\* C5: an assistant message is persisted only for a stream that was drained
\* without failure.
C5_PersistOnlyAfterDrainedStream ==
    [][\A s \in Sessions :
          (pc[s] = "add_assistant" /\ Len(msgs') > Len(msgs))
              => ~raised[s]]_vars

\* C6: no conversation holds two user messages with no assistant message
\* between them.
C6_NoTwoUserMessagesInARow ==
    \A c \in DOMAIN convs :
        LET ms == get_conversation_messages(c)
        IN \A i \in 1..(Len(ms) - 1) :
               ~(ms[i].role = "user" /\ ms[i + 1].role = "user")

\* The conversation session s names does not exist or is another user's.
NamesNoOwnConversation(s) ==
    \/ current_conversation_id[s] \notin DOMAIN convs
    \/ convs[current_conversation_id[s]].user_id # user_id[s]

C8_UserThenAssistantThenUpdatedAt ==
    [][\A s \in Sessions :
          AssistantCommitted(s) =>
              LET c == current_conversation_id[s]
                  a == msgs'[Len(msgs')]
              IN /\ Len(msgs') = Len(msgs) + 1
                 /\ a.role = "assistant" /\ a.conversation_id = c
                 /\ \E i \in 1..Len(msgs) :
                        /\ msgs[i].conversation_id = c
                        /\ msgs[i].role = "user"
                        /\ msgs[i].content = prompt[s]
                        /\ msgs[i].id < a.id
                        /\ msgs[i].created_at <= a.created_at
                        /\ convs'[c].updated_at >= msgs[i].created_at
                 /\ convs'[c].updated_at = clock'
                 /\ convs'[c].updated_at >= a.created_at]_vars

\* A turn has completed: its two messages are stored, in that order.
C8_Witness ==
    \E c \in DOMAIN convs :
        LET ms == get_conversation_messages(c)
        IN /\ Quiet
           /\ Len(ms) = 2
           /\ ms[1].role = "user" /\ ms[2].role = "assistant"
           /\ ms[1].created_at < ms[2].created_at
           /\ convs[c].updated_at >= ms[2].created_at

\* C9: when the assistant write of a turn raises, the store is as it was:
\* the conversation is there and ends in the turn's user message.
C9_AssistantFailureLeavesUserMessage ==
    [][\A s \in Sessions :
          AssistantRaised(s) =>
              LET c == current_conversation_id[s]
                  ms == LET Of(m) == m.conversation_id = c
                        IN SelectSeq(msgs', Of)
              IN /\ msgs' = msgs
                 /\ convs' = convs
                 /\ c \in DOMAIN convs'
                 /\ Len(ms) >= 1
                 /\ ms[Len(ms)].role = "user"
                 /\ ms[Len(ms)].content = prompt[s]]_vars

\* The assistant write raised: the page shows an answer the store lacks.
C9_Witness ==
    \E s \in Sessions :
        LET ms == get_conversation_messages(current_conversation_id[s])
        IN /\ Idle(s)
           /\ exc[s].call = "add_assistant"
           /\ Len(ms) = 1
           /\ ms[1].role = "user"
           /\ Len(messages[s]) = 2
           /\ messages[s][2].role = "assistant"

\* C10: a question creates a conversation only when the session has none,
\* then exactly one, owned by the asker; and the first turn of an empty
\* chat, when it succeeds, leaves one user and one assistant message.
C10_AtMostOneConversationPerQuestion ==
    [][LET created == DOMAIN convs' \ DOMAIN convs IN
       /\ created # {} =>
              \E s \in Sessions :
                  /\ Idle(s) /\ pc'[s] = "add_user"
                  /\ current_conversation_id[s] = None
                  /\ created = {current_conversation_id'[s]}
                  /\ convs'[current_conversation_id'[s]].user_id = user_id[s]
       /\ \A s \in Sessions :
              (Idle(s) /\ pc'[s] = "add_user"
                 /\ current_conversation_id[s] = None)
                  => Cardinality(created) = 1
       /\ \A s \in Sessions :
              (AssistantCommitted(s) /\ Len(messages[s]) = 1) =>
                  LET Of(m) == m.conversation_id = current_conversation_id[s]
                      ms == SelectSeq(msgs', Of)
                  IN /\ Len(ms) = 2
                     /\ ms[1].role = "user" /\ ms[1].content = prompt[s]
                     /\ ms[2].role = "assistant"
                     /\ ms[2].content = response[s]]_vars

\* The first question of a new chat was answered: one conversation of the
\* asker, holding one user and one assistant message.
C10_Witness ==
    \E s \in Sessions :
        LET c == current_conversation_id[s]
            ms == get_conversation_messages(c)
        IN /\ Idle(s) /\ exc[s] = NoExc
           /\ DOMAIN convs = {c}
           /\ nextConvId = 2
           /\ convs[c].user_id = user_id[s]
           /\ Len(ms) = 2 /\ Len(messages[s]) = 2
           /\ ms[1].role = "user" /\ ms[2].role = "assistant"

\* C11: the title derived from a first user message m is m when m has at
\* most 50 characters, and otherwise the first 50 characters of m followed
\* by "...".
C11_TitleIsMessageOrFirst50 ==
    ran = "add_message" =>
        LET m == first_message
            t == conv_title
        IN /\ Len(m) <= 50 => t = m
           /\ Len(m) > 50 =>
                  /\ Len(t) = 53
                  /\ \A i \in 1..50 : t[i] = m[i]
                  /\ \A i \in 51..53 : t[i] = "."

\* A message of 51 characters was given a title of 53.
C11_Witness ==
    /\ ran = "add_message"
    /\ Len(first_message) = 51
    /\ first_message[50] = "a" /\ first_message[51] = "b"
    /\ Len(conv_title) = 53
    /\ conv_title[50] = "a" /\ conv_title[51] = "."

\* Ids the store has given out whose conversation is gone.
Deleted == (1..(nextConvId - 1)) \ DOMAIN convs

\* The step is an explicit deletion that covers conversation c.
DeletionOf(c) ==
    \E s \in Sessions :
        \/ DeleteConversation(s, c)
        \/ ClearAll(s) /\ convs[c].user_id = user_id[s]

\* C12: a deleted conversation stays deleted: no step (a write from a stale
\* session, a creation, a selection) makes a conversation of its id exist
\* again or stores a message for it; and a conversation goes only by an
\* explicit deletion.
C12_DeletedIsTerminal ==
    [][/\ \A c \in Deleted :
              /\ c \notin DOMAIN convs'
              /\ \A i \in 1..Len(msgs') : msgs'[i].conversation_id # c
       /\ \A c \in DOMAIN convs \ DOMAIN convs' : DeletionOf(c)]_vars

\* Conversation 1 was deleted, a later chat got the id 2, that one was
\* deleted too, and the write of the session still naming it was rejected.
C12_Witness ==
    /\ Deleted = {1, 2}
    /\ \E s \in Sessions :
           /\ Idle(s)
           /\ current_conversation_id[s] = 2
           /\ exc[s].why = "no_conversation"

\* The step removes the conversations cs with their messages, and nothing
\* else.
Removes(cs) ==
    LET Kept(m) == m.conversation_id \notin cs
    IN /\ DOMAIN convs' = DOMAIN convs \ cs
       /\ \A c \in DOMAIN convs' : convs'[c] = convs[c]
       /\ \A i \in 1..Len(msgs') : msgs'[i].conversation_id \notin cs
       /\ msgs' = SelectSeq(msgs, Kept)

\* C13: delete_conversation(c) leaves neither c nor a message of c, and
\* delete_all_conversations(u) no conversation of u nor a message of one;
\* every other conversation and message is as it was.
C13_DeletionCascadesAndIsConfined ==
    [][\A s \in Sessions :
          /\ \A c \in DOMAIN convs :
                 DeleteConversation(s, c) => Removes({c})
          /\ ClearAll(s) =>
                 Removes({c \in DOMAIN convs :
                             convs[c].user_id = user_id[s]})]_vars

\* Conversation 2 was deleted with its message; conversation 1, of the
\* other user, and its message are still there.
C13_Witness ==
    /\ DOMAIN convs = {1}
    /\ nextConvId = 3 /\ nextMsgId = 3
    /\ Len(msgs) = 1 /\ msgs[1].conversation_id = 1
    /\ \E s \in Sessions : logged_in[s] /\ user_id[s] # convs[1].user_id

\* C14: no committed write sets updated_at of a conversation to a value
\* earlier than the one it replaces, in any interleaving of add_message
\* calls.
C14_UpdatedAtNeverGoesBack ==
    [][\A c \in DOMAIN convs \cap DOMAIN convs' :
          convs'[c].updated_at >= convs[c].updated_at]_vars

\* The documents retrieved, by their place in docs.
Places == 1..Len(retrieved)

\* The places format_docs appended at.
Used == {used[n] : n \in 1..Len(used)}

\* The loop, at place i, gets to its append and passes the test there.
Appended(i) ==
    /\ ~pass[retrieved[i]].continues
    /\ Len(pass[retrieved[i]].clean_content) > MinClean

\* Of each chunk: whether it holds the redirect marker, the length of its
\* stripped content, and its occurrences of the navigation marker.
redirects == [doc \in Chunked |-> Has(doc.page_content, Redirecting)]
stripped_len == [doc \in Chunked |-> Len(strip(doc.page_content))]
skip_to_count == [doc \in Chunked |-> count(doc.page_content, SkipTo)]

\* C15: format_docs never returns more than 5 labelled passages: at most 10
\* documents are retrieved, and the passages labelled are the first 5 of
\* them that survive, or all that survive when they are fewer.
C15_AtMostFiveLabelledPassages ==
    ran = "get_context" =>
        /\ Len(retrieved) <= 10
        /\ Len(retrieved) <= Len(vectorstore)
        /\ \A i \in Places : retrieved[i] = vectorstore[i]
        /\ Len(labelled) <= 5
        /\ Len(used) = Len(labelled)
        /\ count(context, DocumentTag) <= 5
        /\ \A i \in Places :
               i \in Used <=>
                   /\ Appended(i)
                   /\ Cardinality({j \in 1..(i - 1) : Appended(j)}) < 5

\* Of 11 chunks 10 were retrieved, 5 were labelled, and a later one that
\* survives the filters was left out.
C15_Witness ==
    /\ ran = "get_context"
    /\ Len(vectorstore) = 11
    /\ Len(retrieved) = 10
    /\ Len(labelled) = 5
    /\ \E i \in Places : i > used[5] /\ Appended(i)

\* C16: when no passage survives, and so when nothing was retrieved,
\* format_docs returns the sentinel; the context is never empty.
C16_NoSurvivorGivesSentinel ==
    ran = "get_context" =>
        /\ context # <<>>
        /\ (\A i \in Places : ~Appended(i)) => context = NoDocumentation
        /\ (\A i \in Places : \/ redirects[retrieved[i]]
                              \/ stripped_len[retrieved[i]] < 100)
               => context = NoDocumentation
        /\ labelled # <<>> =>
               /\ context # NoDocumentation
               /\ Has(context, DocumentTag)

\* Documents were retrieved, none survived, and the sentinel was returned.
C16_Witness ==
    /\ ran = "get_context"
    /\ Len(retrieved) >= 2
    /\ labelled = <<>>
    /\ context = NoDocumentation

\* C17: of a history of more than 3 turns given to the pipeline, the
\* history block holds the last 3 turns and no earlier one.
C17_OnlyLastThreeTurns ==
    ran \in {"ask_question", "stream_response"} =>
        (Len(turns) > 3 =>
            chat_history =
                format_chat_history(SubSeq(turns, Len(turns) - 2, Len(turns))))

\* C18: a passage with more than 2 occurrences of the navigation marker is
\* never among the labelled passages, whatever its length.
C18_NavigationPagesDiscarded ==
    ran = "get_context" =>
        \A i \in Places : skip_to_count[retrieved[i]] > 2 => i \notin Used

\* C19: a passage containing "Redirecting" is never labelled, and does not
\* count towards the 5: a survivor with fewer than 5 passages free of the
\* marker before it is labelled.
C19_RedirectPagesDiscarded ==
    ran = "get_context" =>
        /\ \A i \in Places : redirects[retrieved[i]] => i \notin Used
        /\ \A n \in 1..Len(labelled) : ~Has(labelled[n], Redirecting)
        /\ \A i \in Places :
               (/\ Appended(i)
                /\ Cardinality({j \in 1..(i - 1) :
                                   ~redirects[retrieved[j]]}) < 5)
                   => i \in Used

\* Five or more redirect pages came first, and the passage after them was
\* labelled as Document 1.
C19_Witness ==
    /\ ran = "get_context"
    /\ Len(used) >= 1
    /\ Cardinality({j \in 1..(used[1] - 1) : redirects[retrieved[j]]}) >= 5

\* C20: a passage whose stripped content is shorter than 100 characters is
\* never labelled; one of exactly 100 that no other test stops is labelled
\* while fewer than 5 are.
C20_ShortContentDiscarded ==
    ran = "get_context" =>
        /\ \A i \in Places : stripped_len[retrieved[i]] < 100 => i \notin Used
        /\ \A i \in Places :
               (/\ stripped_len[retrieved[i]] = 100
                /\ ~redirects[retrieved[i]]
                /\ skip_to_count[retrieved[i]] = 0
                /\ Len(pass[retrieved[i]].clean_content) > 50
                /\ Cardinality({j \in Used : j < i}) < 5)
                   => i \in Used

\* A passage of 99 stripped characters was passed over and one of 100 was
\* labelled.
C20_Witness ==
    /\ ran = "get_context"
    /\ \E i \in Places : stripped_len[retrieved[i]] = 99 /\ i \notin Used
    /\ \E i \in Used : stripped_len[retrieved[i]] = 100

\* The characters of the passage contents that format_docs was given.
RECURSIVE content_len(_)
content_len(docs) ==
    IF docs = <<>> THEN 0
    ELSE Len(docs[1].page_content) + content_len(Tail(docs))

\* C21: the context block is no longer than the contents of the passages
\* given to format_docs, taken together, for every sequence of passages.
C21_ContextNoLongerThanInput ==
    ran = "get_context" => Len(context) <= content_len(retrieved)

\* The history the chain was given: ask_question's whole, the chat page's
\* last three turns.
Given == IF ran = "stream_response" THEN last(turns, Window) ELSE turns

\* The lines of the turns, in their order: the user's, then the assistant's.
RECURSIVE turn_lines(_)
turn_lines(history) ==
    IF history = <<>> THEN <<>>
    ELSE <<UserPrefix \o history[1][1], AssistantPrefix \o history[1][2]>>
             \o turn_lines(Tail(history))

OneLine(text) == \A i \in 1..Len(text) : text[i] # "\n"

\* C22: the block of a non-empty history is the turns given in their order,
\* each as "User: <text>" with "Assistant: <text>" right after it, a line
\* break between any two; when no text holds a line break the lines of the
\* block are these, two for each turn, none moved, merged or left out.
C22_TurnsInOrderUserThenAssistant ==
    (ran \in {"ask_question", "stream_response"} /\ Given # <<>>) =>
        /\ chat_history = join(LineBreak, turn_lines(Given))
        /\ (\A n \in 1..Len(Given) :
                OneLine(Given[n][1]) /\ OneLine(Given[n][2]))
               => /\ split(chat_history, "\n") = turn_lines(Given)
                  /\ Len(split(chat_history, "\n")) = 2 * Len(Given)

\* The chat page formatted the last three of five turns, which differ.
C22_Witness ==
    /\ ran = "stream_response"
    /\ Len(turns) = 5
    /\ turns[3] # turns[4]
    /\ turns[4] # turns[5]
    /\ \A n \in 3..5 : OneLine(turns[n][2])
    /\ Len(split(chat_history, "\n")) = 6

\* C23: for an empty history, and for a chain input with no chat_history
\* key, the history block is the sentinel "No previous conversation."; the
\* block is never the empty string.
C23_EmptyHistoryGivesSentinel ==
    /\ ran \in {"ask_question", "stream_response"} =>
           /\ chat_history # <<>>
           /\ Given = <<>> => chat_history = NoPreviousConversation
    /\ ran = "invoke" => chat_history = NoPreviousConversation

\* The chain was invoked on an input without the chat_history key.
C23_Witness ==
    /\ ran = "invoke"
    /\ chat_history = NoPreviousConversation
    /\ Len(chat_history) = 25

\* C24: while the chain answers, every pair of the history built from the
\* session's messages is a user message with the assistant message after it:
\* the second of a pair is never a user message, and never the question
\* being asked (the last message).
C24_HistoryPairsAreUserThenAssistant ==
    \A s \in Sessions :
        pc[s] = "stream" =>
            /\ Len(history_of(messages[s])) = Len(paired(messages[s]))
            /\ \A n \in 1..Len(paired(messages[s])) :
                   LET i == paired(messages[s])[n]
                   IN /\ messages[s][i + 1].role = "assistant"
                      /\ i + 1 < Len(messages[s])

\* C25: a passage that gets past the filters, while fewer than 5 are
\* labelled, is passed over exactly when its cleaned content is shorter than
\* 50 characters: with exactly 50 it is labelled.
C25_SkippedExactlyBelowFifty ==
    ran = "get_context" =>
        \A i \in Places :
            (/\ ~pass[retrieved[i]].continues
             /\ Cardinality({j \in Used : j < i}) < 5)
                => (i \notin Used <=>
                       Len(pass[retrieved[i]].clean_content) < 50)

StartsWith(text, prefix) ==
    /\ Len(text) >= Len(prefix)
    /\ SubSeq(text, 1, Len(prefix)) = prefix

\* C26: the labelled passages stand in the order of retrieval and are
\* numbered 1, 2, .. n without a gap, whatever was passed over before or
\* between them; the block is these passages in that order.
C26_LabelledInOrderNumberedFromOne ==
    ran = "get_context" =>
        /\ \A n \in 1..(Len(used) - 1) : used[n] < used[n + 1]
        /\ \A n \in 1..Len(labelled) :
               /\ used[n] \in Places
               /\ StartsWith(labelled[n],
                             DocumentTag \o str(n) \o <<" ", "-", " ">>)
               /\ Has(labelled[n],
                      LineBreak \o pass[retrieved[used[n]]].clean_content
                          \o LineBreak)
        /\ labelled # <<>> =>
               /\ context = join(Separator, labelled)
               /\ count(context, DocumentTag) = Len(labelled)

\* Three passages were labelled, the third a different one after a passage
\* that was passed over.
C26_Witness ==
    /\ ran = "get_context"
    /\ Len(used) = 3
    /\ used[3] > used[2] + 1
    /\ retrieved[used[3]] # retrieved[used[2]]
    /\ StartsWith(labelled[3], DocumentTag \o <<"3">>)

\* The entries of docs that come from the URL url.
FromUrl(docs, url) ==
    {n \in 1..Len(docs) : docs[n].metadata[source_url] = url}

\* The documents that loading gave, over the URLs of the list.
RECURSIVE documents_loaded(_)
documents_loaded(urls) ==
    IF urls = <<>> THEN 0
    ELSE (IF urls[1].ok THEN Len(urls[1].docs) ELSE 0)
             + documents_loaded(Tail(urls))

\* C27: load_documents_from_urls returns each document loaded exactly once,
\* as many entries as documents were loaded, and the chunks made of them
\* hold each piece of each document once.
C27_EachDocumentOneSetOfChunks ==
    /\ ran \in {"load_documents_from_urls", "split_documents"} =>
           /\ Len(all_docs) = documents_loaded(web)
           /\ \A i \in 1..Len(web) :
                  Cardinality(FromUrl(all_docs, web[i].url)) =
                      IF web[i].ok THEN Len(web[i].docs) ELSE 0
    /\ ran = "split_documents" =>
           \A i \in 1..Len(web) :
               web[i].ok =>
                   \A text \in {web[i].docs[n].page_content :
                                   n \in 1..Len(web[i].docs)} :
                       Cardinality(FromUrl(all_chunks, web[i].url)) =
                           Len(split_text(text))

\* The step is session s's call of add_message, to its return or its raise.
AddMessageCalled(s) ==
    /\ pc[s] \in {"add_user", "add_assistant"}
    /\ pc'[s] # pc[s]

C29_NoOrphanMessages ==
    \A n \in 1..Len(msgs) : msgs[n].conversation_id \in DOMAIN convs

\* The first tab's write of its question raised for a conversation the
\* second tab had deleted after the first created it.
C29_Witness ==
    /\ exc[1] = Raised("add_user", "no_conversation")
    /\ current_conversation_id[1] = 1
    /\ 1 \notin DOMAIN convs
    /\ nextConvId = 2
    /\ msgs = <<>>

\* The session's current conversation is none or one of its user's.
OwnChat(s) ==
    \/ current_conversation_id[s] = None
    \/ /\ current_conversation_id[s] \in DOMAIN convs
       /\ convs[current_conversation_id[s]].user_id = user_id[s]

\* a's entries are among b's, in a's order.
RECURSIVE Within(_, _)
Within(a, b) ==
    IF a = <<>> THEN TRUE
    ELSE IF b = <<>> THEN FALSE
    ELSE IF a[1] = b[1] THEN Within(Tail(a), Tail(b))
    ELSE Within(a, Tail(b))

====
